---- MODULE Spec2Model ----
(***************************************************************************)
(* Model of jarvis_chatbot.py: the keyword denylist validate_sql_query,    *)
(* the executor execute_sql_query, close_db_connection and the             *)
(* orchestration call_chatbot, one action per statement of call_chatbot    *)
(* that can fail.  SQL texts are sequences of one-character strings.       *)
(***************************************************************************)
EXTENDS Integers, Sequences, FiniteSets, TLC

(* ---------------------------- bounds ---------------------------------- *)
\* longest run of free characters put before and after a text fragment
MaxAffix == 1
\* number of times the page script re-runs call_chatbot
MaxInteractions == 2

(* ------------------------- characters --------------------------------- *)
UpperChars == <<"A", "B", "C", "D", "E", "F", "G", "H", "I", "J", "K", "L", "M",
                "N", "O", "P", "Q", "R", "S", "T", "U", "V", "W", "X", "Y", "Z">>
LowerChars == <<"a", "b", "c", "d", "e", "f", "g", "h", "i", "j", "k", "l", "m",
                "n", "o", "p", "q", "r", "s", "t", "u", "v", "w", "x", "y", "z">>
Digits == {"0", "1", "2", "3", "4", "5", "6", "7", "8", "9"}
Range(f) == {f[i] : i \in DOMAIN f}

\* re.IGNORECASE compares characters after case folding
FoldTable ==
    [c \in Range(UpperChars) |-> LowerChars[CHOOSE i \in 1..26 : UpperChars[i] = c]]
Fold(c) == IF c \in DOMAIN FoldTable THEN FoldTable[c] ELSE c

\* the regex class \w: letters, digits and the underscore
WordChars == Range(UpperChars) \cup Range(LowerChars) \cup Digits \cup {"_"}
IsWordChar(c) == c \in WordChars

\* is there a \w character at position j of s (outside the text there is none)
WordAt(s, j) == j \in 1..Len(s) /\ IsWordChar(s[j])

\* the regex assertion \b holds just before position i (1..Len(s)+1)
AtBoundary(s, i) == WordAt(s, i - 1) # WordAt(s, i)

\* the literal keyword kw, case folded, stands at positions i..i+Len(kw)-1
LiteralAt(kw, s, i) ==
    /\ i + Len(kw) - 1 <= Len(s)
    /\ \A j \in 1..Len(kw) : Fold(s[i + j - 1]) = Fold(kw[j])

\* re.search(f'\\b{keyword}\\b', sql_query) without re.IGNORECASE
re_search_case_sensitive(kw, s) ==
    \E i \in 1..Len(s) :
        /\ AtBoundary(s, i)
        /\ i + Len(kw) - 1 <= Len(s)
        /\ \A j \in 1..Len(kw) : s[i + j - 1] = kw[j]
        /\ AtBoundary(s, i + Len(kw))

\* re.search(keyword, sql_query, re.IGNORECASE) without the \b assertions
re_search_substring(kw, s) == \E i \in 1..Len(s) : LiteralAt(kw, s, i)

\* re.search(f'\\b{keyword}\\b', sql_query, re.IGNORECASE) is not None
re_search(kw, s) ==
    \E i \in 1..Len(s) :
        /\ AtBoundary(s, i)
        /\ LiteralAt(kw, s, i)
        /\ AtBoundary(s, i + Len(kw))

(* ------------------------ validate_sql_query -------------------------- *)
disallowed_keywords ==
    << <<"I", "N", "S", "E", "R", "T">>,
       <<"U", "P", "D", "A", "T", "E">>,
       <<"D", "E", "L", "E", "T", "E">>,
       <<"D", "R", "O", "P">>,
       <<";">>,
       <<"-", "-">>,
       <<"C", "R", "E", "A", "T", "E">>,
       <<"A", "L", "T", "E", "R">> >>

\* Python values returned by validate_sql_query: the bool True, or the
\* 2-tuple (False, message); reason is the keyword quoted in the message
PyTrue == [tag |-> "bool", ok |-> TRUE, reason |-> <<>>]
PyRejectTuple(kw) == [tag |-> "tuple", ok |-> FALSE, reason |-> kw]
NoValue == [tag |-> "none", ok |-> FALSE, reason |-> <<>>]

validate_sql_query(sql) ==
    IF \E k \in 1..Len(disallowed_keywords) : re_search(disallowed_keywords[k], sql)
    THEN LET first == CHOOSE k \in 1..Len(disallowed_keywords) :
                          /\ re_search(disallowed_keywords[k], sql)
                          /\ \A m \in 1..(k - 1) : ~re_search(disallowed_keywords[m], sql)
         IN  PyRejectTuple(disallowed_keywords[first])
    ELSE PyTrue

\* Python truth value: a bool is itself, a non-empty tuple is true
Truthy(v) == IF v.tag = "tuple" THEN TRUE ELSE v.ok

\* the verdicts of the Safety Gate
Rejected(v) == v.tag = "tuple" /\ ~v.ok
Allowed(v) == v.tag = "bool" /\ v.ok

(* ---------------- the database behind cursor.execute ------------------ *)
\* The driver sends the whole text in one simple-query message inside the
\* transaction it opened; the server runs the ';'-separated statements in
\* order and stops at the first one that fails.
RECURSIVE Split(_)
Split(s) ==
    IF \E i \in 1..Len(s) : s[i] = ";"
    THEN LET i == CHOOSE i \in 1..Len(s) : s[i] = ";" /\ \A j \in 1..(i - 1) : s[j] # ";"
         IN  <<SubSeq(s, 1, i - 1)>> \o Split(SubSeq(s, i + 1, Len(s)))
    ELSE <<s>>

\* the text up to the first "--" comment
StripComment(s) ==
    IF \E i \in 1..(Len(s) - 1) : s[i] = "-" /\ s[i + 1] = "-"
    THEN LET i == CHOOSE i \in 1..(Len(s) - 1) :
                      /\ s[i] = "-" /\ s[i + 1] = "-"
                      /\ \A j \in 1..(i - 1) : ~(s[j] = "-" /\ s[j + 1] = "-")
         IN  SubSeq(s, 1, i - 1)
    ELSE s

\* the first word of a statement, case folded (<<>> when it has none)
FirstWord(s) ==
    LET start == IF \E i \in 1..Len(s) : s[i] # " "
                 THEN CHOOSE i \in 1..Len(s) : s[i] # " " /\ \A j \in 1..(i - 1) : s[j] = " "
                 ELSE Len(s) + 1
        stop  == IF \E i \in start..Len(s) : ~IsWordChar(s[i])
                 THEN CHOOSE i \in start..Len(s) :
                          ~IsWordChar(s[i]) /\ \A j \in start..(i - 1) : IsWordChar(s[j])
                 ELSE Len(s) + 1
    IN  [j \in 1..(stop - start) |-> Fold(s[start + j - 1])]

IsBlank(s) == \A i \in 1..Len(s) : s[i] = " "

WritingVerbs ==
    { <<"i", "n", "s", "e", "r", "t">>, <<"u", "p", "d", "a", "t", "e">>,
      <<"d", "e", "l", "e", "t", "e">>, <<"d", "r", "o", "p">>,
      <<"c", "r", "e", "a", "t", "e">>, <<"a", "l", "t", "e", "r">>,
      <<"t", "r", "u", "n", "c", "a", "t", "e">> }

\* what a statement does when the server accepts it
StatementKind(s) ==
    IF IsBlank(s) THEN "empty"
    ELSE IF FirstWord(s) = <<"s", "e", "l", "e", "c", "t">> THEN "read"
    ELSE IF FirstWord(s) = <<"c", "o", "m", "m", "i", "t">> THEN "commit"
    ELSE IF FirstWord(s) \in WritingVerbs THEN "write"
    ELSE "invalid"

Statements(sql) == Split(StripComment(sql))

\* state of the server while it runs statements 1..n of a text:
\* committed = version of the committed contents, dirty = uncommitted
\* changes exist, inTx = the driver's transaction block is still open,
\* last = kind of the last non-empty statement
RECURSIVE RunStatements(_, _, _)
RunStatements(stmts, n, st) ==
    IF n = 0 THEN st
    ELSE LET prev == RunStatements(stmts, n - 1, st)
             kind == StatementKind(stmts[n])
         IN  IF kind = "write" THEN [prev EXCEPT !.dirty = TRUE, !.last = kind]
             ELSE IF kind = "commit"
                  THEN [prev EXCEPT !.committed = IF prev.dirty THEN @ + 1 ELSE @,
                                    !.dirty = FALSE, !.inTx = FALSE, !.last = kind]
             ELSE IF kind = "read" THEN [prev EXCEPT !.last = kind]
             ELSE prev

\* the statements at which the run may stop with an error: any of them
\* (syntax, permissions, missing relation, connectivity), and no later
\* than the first invalid one
FailPoints(stmts) ==
    { k \in 1..(Len(stmts) + 1) :
        \A j \in 1..(k - 1) : StatementKind(stmts[j]) # "invalid" }

\* result of execute_sql_query(cursor, sql) when the server fails at
\* statement failAt (Len+1: none fails): ok = it returned rows,
\* committed/dirty = the database afterwards
execute_sql_query(sql, committed, dirty, failAt) ==
    LET stmts == Statements(sql)
        run   == RunStatements(stmts, failAt - 1,
                    [committed |-> committed, dirty |-> dirty, inTx |-> TRUE, last |-> "empty"])
    IN  IF failAt <= Len(stmts)
        THEN \* the server aborts: uncommitted changes are lost
             [ok |-> FALSE, committed |-> run.committed, dirty |-> FALSE]
        ELSE LET done == IF ~run.inTx /\ run.dirty
                         THEN [run EXCEPT !.committed = @ + 1, !.dirty = FALSE]
                         ELSE run
             IN  \* cursor.fetchall() raises unless the last statement has a result set
                 [ok |-> done.last = "read", committed |-> done.committed, dirty |-> done.dirty]

(* --------------------------- the inputs -------------------------------- *)
AffixChars == {" ", "_", ";", "-"}
Affixes == UNION {[1..n -> AffixChars] : n \in 0..MaxAffix}

Cores ==
    { <<>>,
      <<"s", "e", "l", "e", "c", "t", " ", "1">>,
      <<"U", "p", "d", "a", "t", "e", "d", "_", "A", "t">>,
      <<"d", "r", "o", "p">>, <<"D", "R", "O", "P">>, <<"D", "r", "O", "p">>,
      <<"i", "n", "s", "e", "r", "t">>, <<"U", "P", "D", "A", "T", "E">>,
      <<"D", "e", "l", "e", "t", "e">>, <<"c", "r", "e", "a", "t", "e">>,
      <<"A", "L", "T", "E", "R">>,
      <<";">>, <<"-", "-">>,
      <<"d", "e", "l", "e", "t", "e", " ", "f", "r", "o", "m", " ", "t", ";", " ",
        "c", "o", "m", "m", "i", "t">>,
      <<"t", "r", "u", "n", "c", "a", "t", "e", " ", "t", ";", " ",
        "c", "o", "m", "m", "i", "t">>,
      <<"s", "e", "l", "e", "c", "t", " ", "1", " ", "-", "-", " ", "x">>,
      <<"a", ";", "b">>, <<"a", "-", "-", "b">> }

\* the texts the generation service may return
Texts == {pre \o core \o suf : pre \in Affixes, core \in Cores, suf \in Affixes}

(* ---------------------------- the state -------------------------------- *)
VARIABLES
    pc,            \* next statement of call_chatbot ("idle": not entered, "done": left)
    interactions,  \* number of the current run of the page script
    sql_query,     \* local sql_query of call_chatbot
    verdict,       \* value returned by validate_sql_query
    conn,          \* local conn: "none", "open", "closed"
    cursor,        \* local cursor: "none", "open", "closed"
    connCloses,    \* calls of conn.close() in this interaction
    cursorCloses,  \* calls of cursor.close() in this interaction
    leaked,        \* connections of earlier interactions never closed
    committed,     \* version of the committed contents of the database
    txDirty,       \* uncommitted changes pending in conn's transaction
    trace,         \* pipeline steps called in this interaction, in order
    execResult,    \* "none", "rows", "raised"
    interpResult,  \* "none", "text", "raised"
    screen,        \* what st.write / st.dataframe have shown in this interaction
    outcome,       \* how call_chatbot was left: "none", "returned", "raised"
    error          \* message of the exception raised in this interaction

vars == <<pc, interactions, sql_query, verdict, conn, cursor, connCloses, cursorCloses,
          leaked, committed, txDirty, trace, execResult, interpResult, screen,
          outcome, error>>

Step(name, arg) == [step |-> name, arg |-> arg]
Shown(kind, text, msg) == [kind |-> kind, text |-> text, msg |-> msg]

Init ==
    /\ pc = "idle"
    /\ interactions = 1
    /\ sql_query = <<>>
    /\ verdict = NoValue
    /\ conn = "none"
    /\ cursor = "none"
    /\ connCloses = 0
    /\ cursorCloses = 0
    /\ leaked = 0
    /\ committed = 0
    /\ txDirty = FALSE
    /\ trace = <<>>
    /\ execResult = "none"
    /\ interpResult = "none"
    /\ screen = <<>>
    /\ outcome = "none"
    /\ error = ""

\* an exception raised outside the try statement leaves call_chatbot
Propagate(msg) ==
    /\ pc' = "done"
    /\ outcome' = "raised"
    /\ error' = msg

\* an exception raised inside the try statement reaches the except clause
Caught(msg) ==
    /\ pc' = "except"
    /\ error' = msg
    /\ UNCHANGED outcome

(* ---------------------- call_chatbot, step by step --------------------- *)
\* conn = get_db_connection()
Connect ==
    /\ pc = "idle"
    /\ \/ /\ conn' = "open"
          /\ pc' = "L100"
          /\ UNCHANGED <<outcome, error>>
       \/ /\ Propagate("ConnectFailure")
          /\ UNCHANGED conn
    /\ UNCHANGED <<interactions, sql_query, verdict, cursor, connCloses, cursorCloses,
                   leaked, committed, txDirty, trace, execResult, interpResult, screen>>

\* sql_query = get_sql_from_codex(user_query)
Generate ==
    /\ pc = "L100"
    /\ trace' = Append(trace, Step("generate", <<>>))
    /\ \/ /\ \E text \in Texts : sql_query' = text
          /\ pc' = "L101"
          /\ UNCHANGED <<outcome, error>>
       \/ /\ Propagate("GenerationFailure")
          /\ UNCHANGED sql_query
    /\ UNCHANGED <<interactions, verdict, conn, cursor, connCloses, cursorCloses,
                   leaked, committed, txDirty, execResult, interpResult, screen>>

\* if not validate_sql_query(sql_query): raise ValueError(...)
Validate ==
    /\ pc = "L101"
    /\ trace' = Append(trace, Step("gate", sql_query))
    /\ verdict' = validate_sql_query(sql_query)
    /\ IF ~Truthy(verdict')
       THEN Propagate("ValueError")
       ELSE pc' = "L106" /\ UNCHANGED <<outcome, error>>
    /\ UNCHANGED <<interactions, sql_query, conn, cursor, connCloses, cursorCloses,
                   leaked, committed, txDirty, execResult, interpResult, screen>>

\* cursor = conn.cursor()
OpenCursor ==
    /\ pc = "L106"
    /\ \/ /\ cursor' = "open"
          /\ pc' = "L107"
          /\ UNCHANGED <<outcome, error>>
       \/ /\ Caught("CursorFailure")
          /\ UNCHANGED cursor
    /\ UNCHANGED <<interactions, sql_query, verdict, conn, connCloses, cursorCloses,
                   leaked, committed, txDirty, trace, execResult, interpResult, screen>>

\* result, df = execute_sql_query(cursor, sql_query)
Execute ==
    /\ pc = "L107"
    /\ trace' = Append(trace, Step("execute", sql_query))
    /\ \E failAt \in FailPoints(Statements(sql_query)) :
          LET r == execute_sql_query(sql_query, committed, txDirty, failAt)
          IN  /\ committed' = r.committed
              /\ txDirty' = r.dirty
              /\ IF r.ok
                 THEN /\ execResult' = "rows"
                      /\ pc' = "L109"
                      /\ UNCHANGED <<outcome, error>>
                 ELSE /\ execResult' = "raised"
                      /\ Caught("ExecutionFailure")
    /\ UNCHANGED <<interactions, sql_query, verdict, conn, cursor, connCloses,
                   cursorCloses, leaked, interpResult, screen>>

\* response_with_results = openai.ChatCompletion.create(...); interpretation = ...
Interpret ==
    /\ pc = "L109"
    /\ trace' = Append(trace, Step("interpret", sql_query))
    /\ \/ /\ interpResult' = "text"
          /\ pc' = "L121"
          /\ UNCHANGED <<outcome, error>>
       \/ /\ interpResult' = "raised"
          /\ Caught("InterpretationFailure")
    /\ UNCHANGED <<interactions, sql_query, verdict, conn, cursor, connCloses,
                   cursorCloses, leaked, committed, txDirty, execResult, screen>>

\* st.write("SQL Query:", sql_query) ... st.dataframe(df)
Display ==
    /\ pc = "L121"
    /\ trace' = Append(trace, Step("display", sql_query))
    /\ screen' = screen \o << Shown("sql", sql_query, ""),
                              Shown("explanation", <<>>, ""),
                              Shown("results", <<>>, ""),
                              Shown("table", <<>>, "") >>
    /\ pc' = "finally"
    /\ UNCHANGED <<interactions, sql_query, verdict, conn, cursor, connCloses,
                   cursorCloses, leaked, committed, txDirty, execResult, interpResult,
                   outcome, error>>

\* an except clause that runs the executor a second time
HandleException_retry ==
    /\ pc = "except"
    /\ screen' = Append(screen, Shown("error", <<>>, error))
    /\ pc' = IF execResult = "raised" /\ Len(trace) < 4 THEN "L107" ELSE "finally"
    /\ UNCHANGED <<interactions, sql_query, verdict, conn, cursor, connCloses,
                   cursorCloses, leaked, committed, txDirty, trace, execResult,
                   interpResult, outcome, error>>

\* an except clause that still shows the rows it has
HandleException_show_rows ==
    /\ pc = "except"
    /\ screen' = IF execResult = "rows"
                 THEN screen \o << Shown("error", <<>>, error), Shown("table", <<>>, "") >>
                 ELSE Append(screen, Shown("error", <<>>, error))
    /\ pc' = "finally"
    /\ UNCHANGED <<interactions, sql_query, verdict, conn, cursor, connCloses,
                   cursorCloses, leaked, committed, txDirty, trace, execResult,
                   interpResult, outcome, error>>

\* except Exception as e: st.write("An error occurred:", str(e))
HandleException ==
    /\ pc = "except"
    /\ screen' = Append(screen, Shown("error", <<>>, error))
    /\ pc' = "finally"
    /\ UNCHANGED <<interactions, sql_query, verdict, conn, cursor, connCloses,
                   cursorCloses, leaked, committed, txDirty, trace, execResult,
                   interpResult, outcome, error>>

\* close_db_connection(conn, cursor): each argument is closed when truthy;
\* closing the connection rolls its open transaction back
close_db_connection(connArg, cursorArg) ==
    /\ IF cursorArg # "none"
       THEN cursor' = "closed" /\ cursorCloses' = cursorCloses + 1
       ELSE UNCHANGED <<cursor, cursorCloses>>
    /\ IF connArg # "none"
       THEN conn' = "closed" /\ connCloses' = connCloses + 1 /\ txDirty' = FALSE
       ELSE UNCHANGED <<conn, connCloses, txDirty>>

\* finally: close_db_connection(conn, cursor=None)
Finally ==
    /\ pc = "finally"
    /\ close_db_connection(conn, "none")
    /\ pc' = "done"
    /\ outcome' = "returned"
    /\ UNCHANGED <<interactions, sql_query, verdict, leaked, committed, trace,
                   execResult, interpResult, screen, error>>

\* if user_query: call_chatbot(user_query) -- the page script runs again on
\* the next input; the locals of the previous call are gone
NextInteraction ==
    /\ pc = "done"
    /\ interactions < MaxInteractions
    /\ interactions' = interactions + 1
    /\ leaked' = leaked + (IF conn = "open" THEN 1 ELSE 0)
    /\ pc' = "idle"
    /\ sql_query' = <<>>
    /\ verdict' = NoValue
    /\ conn' = "none"
    /\ cursor' = "none"
    /\ connCloses' = 0
    /\ cursorCloses' = 0
    /\ trace' = <<>>
    /\ execResult' = "none"
    /\ interpResult' = "none"
    /\ screen' = <<>>
    /\ outcome' = "none"
    /\ error' = ""
    /\ UNCHANGED <<committed, txDirty>>

Next ==
    \/ Connect
    \/ Generate
    \/ Validate
    \/ OpenCursor
    \/ Execute
    \/ Interpret
    \/ Display
    \/ HandleException
    \/ Finally
    \/ NextInteraction

Spec == Init /\ [][Next]_vars

(* ------------------------- vocabulary of the claims -------------------- *)
\* the text pat occurs in s, character for character
Contains(s, pat) ==
    \E i \in 1..Len(s) : i + Len(pat) - 1 <= Len(s) /\ SubSeq(s, i, i + Len(pat) - 1) = pat

MutatingKeywords ==
    { <<"I", "N", "S", "E", "R", "T">>, <<"U", "P", "D", "A", "T", "E">>,
      <<"D", "E", "L", "E", "T", "E">>, <<"D", "R", "O", "P">>,
      <<"C", "R", "E", "A", "T", "E">>, <<"A", "L", "T", "E", "R">> }

\* kw occurs in s in any mix of cases, with a non-word character or an end
\* of the text on each side
HasWholeWord(s, kw) ==
    \E i \in 1..Len(s) :
        LET last == i + Len(kw) - 1
        IN  /\ last <= Len(s)
            /\ \A j \in 1..Len(kw) : Fold(s[i + j - 1]) = Fold(kw[j])
            /\ i = 1 \/ ~IsWordChar(s[i - 1])
            /\ last = Len(s) \/ ~IsWordChar(s[last + 1])

HasUpper(s) == \E i \in 1..Len(s) : s[i] \in DOMAIN FoldTable
HasLower(s) == \E i \in 1..Len(s) : s[i] \in Range(LowerChars)

GateApplied == verdict # NoValue
StepsOf(t) == [i \in 1..Len(t) |-> t[i].step]
Called(name) == \E i \in 1..Len(trace) : trace[i].step = name
OnScreen(kind) == \E i \in 1..Len(screen) : screen[i].kind = kind
IsPrefix(a, b) == Len(a) <= Len(b) /\ SubSeq(b, 1, Len(a)) = a
Pipeline == <<"generate", "gate", "execute", "interpret", "display">>

(* ------------------------------ claims --------------------------------- *)
\* C1: a statement the gate rejects is never passed to the executor
C1_RejectedNeverExecuted == Called("execute") => ~Rejected(verdict)

\* C2: every text containing ';' or '--' anywhere is rejected by the gate
C2_TerminatorOrCommentRejected ==
    (GateApplied /\ (Contains(sql_query, <<";">>) \/ Contains(sql_query, <<"-", "-">>)))
        => Rejected(verdict)

\* C3: every text containing INSERT, UPDATE, DELETE, DROP, CREATE or ALTER
\* as a whole word, in any mix of cases, is rejected by the gate
C3_WholeWordKeywordRejected ==
    (GateApplied /\ \E kw \in MutatingKeywords : HasWholeWord(sql_query, kw))
        => Rejected(verdict)

\* C3 witness: a mixed-case keyword between non-word characters was rejected
C3_Witness ==
    /\ GateApplied
    /\ \E kw \in MutatingKeywords : HasWholeWord(sql_query, kw)
    /\ HasUpper(sql_query) /\ HasLower(sql_query)
    /\ Len(sql_query) > 4
    /\ Rejected(verdict)

\* C4: every text with no whole-word keyword, no ';' and no '--' is allowed
\* by the gate, a keyword inside a longer identifier included
C4_CleanTextAllowed ==
    (/\ GateApplied
     /\ \A kw \in MutatingKeywords : ~HasWholeWord(sql_query, kw)
     /\ ~Contains(sql_query, <<";">>)
     /\ ~Contains(sql_query, <<"-", "-">>))
        => Allowed(verdict)

\* C4 witness: Updated_At, which contains UPDATE, was allowed
C4_Witness ==
    /\ GateApplied
    /\ Contains(sql_query, <<"U", "p", "d", "a", "t", "e", "d", "_", "A", "t">>)
    /\ Allowed(verdict)

\* C5: the connection is released on every exit path, so none opened by an
\* earlier interaction is still open
C5_ConnectionReleasedOnEveryExit ==
    /\ pc = "done" => conn # "open"
    /\ leaked = 0

\* C6: call_chatbot always returns normally, with the error on the screen
C6_NoUncaughtException ==
    pc = "done" =>
        /\ outcome = "returned"
        /\ error # "" => OnScreen("error")

\* C7: the committed contents of the database never change
C7_StoreNeverMutated == committed = 0

\* C8: when the executor raises, connection and cursor are each released
\* exactly once, the error message is shown and no table is
C8_ExecutionFailureReleasesOnce ==
    (pc = "done" /\ execResult = "raised") =>
        /\ connCloses = 1
        /\ cursorCloses = 1
        /\ \E i \in 1..Len(screen) : screen[i].kind = "error" /\ screen[i].msg = error
        /\ ~OnScreen("table")

\* C9: the steps run in the order generator, gate, executor, interpreter,
\* display, each at most once; the executor gets the statement the gate
\* saw, the interpreter follows returned rows, the SQL shown was executed
C9_PipelineOrder ==
    /\ IsPrefix(StepsOf(trace), Pipeline)
    /\ \A i \in 1..Len(trace) :
          /\ trace[i].step = "execute" => (Len(trace) >= 2 /\ trace[i].arg = trace[2].arg
                                             /\ trace[2].step = "gate")
          /\ trace[i].step = "interpret" => execResult = "rows"
    /\ \A k \in 1..Len(screen) :
          screen[k].kind = "sql" =>
              \E i \in 1..Len(trace) : trace[i].step = "execute" /\ trace[i].arg = screen[k].text

\* C9 witness: a whole pipeline ran and its SQL is on the screen
C9_Witness ==
    /\ pc = "done"
    /\ StepsOf(trace) = Pipeline
    /\ OnScreen("sql")

\* C10: SQL, explanation and table are shown only after execution and
\* interpretation both succeeded; when interpretation fails after a
\* successful execution only the error is shown and the connection is closed
C10_DisplayAllOrNothing ==
    /\ (OnScreen("sql") \/ OnScreen("explanation") \/ OnScreen("table"))
          => (execResult = "rows" /\ interpResult = "text")
    /\ (pc = "done" /\ execResult = "rows" /\ interpResult = "raised")
          => (/\ screen = <<Shown("error", <<>>, error)>>
              /\ error = "InterpretationFailure"
              /\ conn = "closed")

\* C10 witness: interpretation failed after rows were fetched
C10_Witness ==
    /\ pc = "done"
    /\ execResult = "rows"
    /\ interpResult = "raised"
    /\ OnScreen("error")

====
